---- MODULE Spec2Model ----
(***************************************************************************)
(* Model of src/examples/client_sse.py: the coroutine run() that performs  *)
(* a preflight GET, opens an SSE connection and a ClientSession in two     *)
(* nested `async with` scopes, initializes, lists the tools, calls one     *)
(* tool and prints the content of its result.                              *)
(*                                                                         *)
(* Every awaited (or blocking) external call is split in a Start action    *)
(* and a Returns / Raises pair, so that "in flight" is a state of the      *)
(* model.  What the remote side answers is a nondeterministic choice.      *)
(***************************************************************************)
EXTENDS Integers, Sequences, FiniteSets, TLC

VARIABLES
    tokenEnv,   \* os.getenv('APIFY_TOKEN'): "none" (unset), "good" or "bad"
    pc,         \* the statement run() is at
    waiting,    \* TRUE while the external call of statement pc is in flight
    connOpen,   \* the sse_client scope is entered and not yet exited
    sessOpen,   \* the ClientSession scope is entered and not yet exited
    resp,       \* <<r>>: the Response of requests.get, <<>> before
    tools,      \* <<tools>>: the result of list_tools, <<>> before
    result,     \* <<result>>: the result of call_tool, <<>> before
    idx,        \* position of the for loop over result.content
    calls,      \* the (name, arguments) pairs handed to session.call_tool
    out,        \* what was printed, in order: <<tag, payload>> pairs
    log,        \* start / return / raise of every external call, in order
    exc         \* "none", or the statement whose exception is propagating

vars == <<tokenEnv, pc, waiting, connOpen, sessOpen, resp, tools, result,
          idx, calls, out, log, exc>>

-----------------------------------------------------------------------------
(* Bounds of the model *)

\* the longest capability collection list_tools answers with
MaxTools == 2

\* the items a content sequence is made of
ContentItems == {"item_a", "item_b"}

-----------------------------------------------------------------------------
(* Module-level values of the script *)

\* f"Bearer {os.getenv('APIFY_TOKEN')}": an unset variable formats as "None"
HEADERS(token) ==
    [Authorization |-> <<"Bearer", IF token = "none" THEN "None" ELSE token>>]

\* "maxResults": 3
maxResults == 3

ToolName == "apify/rag-web-browser"

ToolArgs_OneMore == [query |-> "example.com", maxResults |-> maxResults + 1]

ToolArgs == [query |-> "example.com", maxResults |-> maxResults]

-----------------------------------------------------------------------------
(* The remote side *)

\* all sequences over S of length at most n
SeqUpTo(S, n) == UNION {[1..k -> S] : k \in 0..n}

\* What the server answers to the preflight GET when an answer arrives: it
\* authenticates the bearer token; the body parses as JSON or does not.
ServerPreflightResponses(headers) ==
    LET ok == headers.Authorization = <<"Bearer", "good">>
    IN  {[status |-> s, json |-> j] :
            s \in (IF ok THEN {200, 500} ELSE {401}), j \in BOOLEAN}

\* What list_tools answers: an object with a tools collection (possibly
\* empty), or an object exposing no "tools" attribute at all.
ListToolsResults ==
    {[has |-> TRUE, tools |-> t] : t \in SeqUpTo({"tool"}, MaxTools)}
        \cup {[has |-> FALSE, tools |-> <<>>]}

\* What the server answers to call_tool: at most arguments.maxResults items.
ServerCallToolResults(name, arguments) ==
    {[content |-> c] : c \in SeqUpTo(ContentItems, arguments.maxResults)}

-----------------------------------------------------------------------------
(* Control flow of run() *)

NextStep_SkipList(step) ==
    CASE step = "get"     -> "json"
      [] step = "json"    -> "sse"
      [] step = "sse"     -> "session"
      [] step = "session" -> "init"
      [] step = "init"    -> "call"
      [] step = "list"    -> "check"
      [] step = "check"   -> "call"
      [] step = "call"    -> "print"
      [] step = "print"   -> "exit_session"

\* the statement that follows `step` when it completes without raising
NextStep(step) ==
    CASE step = "get"     -> "json"
      [] step = "json"    -> "sse"
      [] step = "sse"     -> "session"
      [] step = "session" -> "init"
      [] step = "init"    -> "list"
      [] step = "list"    -> "check"
      [] step = "check"   -> "call"
      [] step = "call"    -> "print"
      [] step = "print"   -> "exit_session"

Unwind_NoRelease(step, sess, conn) == "done"

Unwind_Retry(step, sess, conn) == step

\* where an exception raised by `step` goes: out through the `async with`
\* scopes that are entered, innermost first, then out of run()
Unwind(step, sess, conn) ==
    IF sess THEN "exit_session" ELSE IF conn THEN "exit_sse" ELSE "done"

EarlyReturn_Never(t) == FALSE

EarlyReturn_MissingIsEmpty(t) == ~t.has \/ t.tools = <<>>

\* hasattr(tools, "tools") and not tools.tools
EarlyReturn(t) == t.has /\ t.tools = <<>>

LoopDone_OffByOne(i, content) == i >= Len(content)

\* the for loop over result.content is exhausted
LoopDone(i, content) == i > Len(content)

Event(op, ev) == [op |-> op, ev |-> ev]

\* an external call of statement `step` is begun
Start(step) ==
    /\ pc = step
    /\ ~waiting
    /\ waiting' = TRUE
    /\ log' = Append(log, Event(step, "start"))

\* the external call of statement `step` raises
Raise(step) ==
    /\ pc = step
    /\ waiting
    /\ waiting' = FALSE
    /\ log' = Append(log, Event(step, "raise"))
    /\ exc' = step
    /\ pc' = Unwind(step, sessOpen, connOpen)

\* the external call of statement `step` returns
Return(step) ==
    /\ pc = step
    /\ waiting
    /\ waiting' = FALSE
    /\ log' = Append(log, Event(step, "return"))
    /\ pc' = NextStep(step)

-----------------------------------------------------------------------------
(* State after module import, before asyncio.run(run()) *)

Init ==
    /\ tokenEnv \in {"none", "good", "bad"}
    /\ pc = "get"
    /\ waiting = FALSE
    /\ connOpen = FALSE
    /\ sessOpen = FALSE
    /\ resp = <<>>
    /\ tools = <<>>
    /\ result = <<>>
    /\ idx = 1
    /\ calls = <<>>
    /\ out = <<>>
    /\ log = <<>>
    /\ exc = "none"

-----------------------------------------------------------------------------
(* Lines 27-29: the preflight *)

StartGet ==
    /\ Start("get")
    /\ out' = Append(out, <<"Start MCP Server with Actors", <<>>>>)
    /\ UNCHANGED <<tokenEnv, pc, connOpen, sessOpen, resp, tools, result,
                   idx, calls, exc>>

GetRaises ==
    /\ Raise("get")
    /\ UNCHANGED <<tokenEnv, connOpen, sessOpen, resp, tools, result, idx,
                   calls, out>>

\* requests.get returns whatever the status is: there is no raise_for_status
GetReturns ==
    /\ Return("get")
    /\ \E r \in ServerPreflightResponses(HEADERS(tokenEnv)) : resp' = <<r>>
    /\ UNCHANGED <<tokenEnv, connOpen, sessOpen, tools, result, idx, calls,
                   out, exc>>

\* print("MCP Server Response:", r.json()): r.json() raises on a body that
\* is not JSON, and nothing is printed then
ParseJson ==
    /\ pc = "json"
    /\ IF resp[1].json
       THEN /\ out' = Append(out, <<"MCP Server Response:", resp[1].status>>)
            /\ pc' = NextStep("json")
            /\ exc' = exc
       ELSE /\ out' = out
            /\ pc' = Unwind("json", sessOpen, connOpen)
            /\ exc' = "json"
    /\ UNCHANGED <<tokenEnv, waiting, connOpen, sessOpen, resp, tools,
                   result, idx, calls, log>>

-----------------------------------------------------------------------------
(* Lines 31-32: the two scopes *)

StartSse ==
    /\ Start("sse")
    /\ UNCHANGED <<tokenEnv, pc, connOpen, sessOpen, resp, tools, result,
                   idx, calls, out, exc>>

SseRaises ==
    /\ Raise("sse")
    /\ UNCHANGED <<tokenEnv, connOpen, sessOpen, resp, tools, result, idx,
                   calls, out>>

SseReturns ==
    /\ Return("sse")
    /\ connOpen' = TRUE
    /\ UNCHANGED <<tokenEnv, sessOpen, resp, tools, result, idx, calls, out,
                   exc>>

StartSession ==
    /\ Start("session")
    /\ UNCHANGED <<tokenEnv, pc, connOpen, sessOpen, resp, tools, result,
                   idx, calls, out, exc>>

SessionRaises ==
    /\ Raise("session")
    /\ UNCHANGED <<tokenEnv, connOpen, sessOpen, resp, tools, result, idx,
                   calls, out>>

SessionReturns ==
    /\ Return("session")
    /\ sessOpen' = TRUE
    /\ UNCHANGED <<tokenEnv, connOpen, resp, tools, result, idx, calls, out,
                   exc>>

-----------------------------------------------------------------------------
(* Line 33: initialize *)

StartInitialize ==
    /\ Start("init")
    /\ UNCHANGED <<tokenEnv, pc, connOpen, sessOpen, resp, tools, result,
                   idx, calls, out, exc>>

InitializeRaises ==
    /\ Raise("init")
    /\ UNCHANGED <<tokenEnv, connOpen, sessOpen, resp, tools, result, idx,
                   calls, out>>

InitializeReturns ==
    /\ Return("init")
    /\ UNCHANGED <<tokenEnv, connOpen, sessOpen, resp, tools, result, idx,
                   calls, out, exc>>

-----------------------------------------------------------------------------
(* Lines 35-40: list_tools and the early return *)

StartListTools ==
    /\ Start("list")
    /\ UNCHANGED <<tokenEnv, pc, connOpen, sessOpen, resp, tools, result,
                   idx, calls, out, exc>>

ListToolsRaises ==
    /\ Raise("list")
    /\ UNCHANGED <<tokenEnv, connOpen, sessOpen, resp, tools, result, idx,
                   calls, out>>

ListToolsReturns ==
    /\ Return("list")
    /\ \E t \in ListToolsResults :
          /\ tools' = <<t>>
          /\ out' = Append(out, <<"Available Tools:", t>>)
    /\ UNCHANGED <<tokenEnv, connOpen, sessOpen, resp, result, idx, calls,
                   exc>>

CheckTools ==
    /\ pc = "check"
    /\ IF EarlyReturn(tools[1])
       THEN /\ out' = Append(out, <<"No tools available!", <<>>>>)
            /\ pc' = "exit_session"
       ELSE /\ out' = out
            /\ pc' = NextStep("check")
    /\ UNCHANGED <<tokenEnv, waiting, connOpen, sessOpen, resp, tools,
                   result, idx, calls, log, exc>>

-----------------------------------------------------------------------------
(* Lines 42-46: call_tool and the printing loop *)

StartCallTool ==
    /\ Start("call")
    /\ calls' = Append(calls, [name |-> ToolName, arguments |-> ToolArgs])
    /\ UNCHANGED <<tokenEnv, pc, connOpen, sessOpen, resp, tools, result,
                   idx, out, exc>>

CallToolRaises ==
    /\ Raise("call")
    /\ UNCHANGED <<tokenEnv, connOpen, sessOpen, resp, tools, result, idx,
                   calls, out>>

CallToolReturns ==
    /\ Return("call")
    /\ \E res \in ServerCallToolResults(calls[Len(calls)].name,
                                        calls[Len(calls)].arguments) :
          result' = <<res>>
    /\ out' = Append(out, <<"Tools Call Result:", <<>>>>)
    /\ UNCHANGED <<tokenEnv, connOpen, sessOpen, resp, tools, idx, calls,
                   exc>>

PrintContent ==
    /\ pc = "print"
    /\ ~LoopDone(idx, result[1].content)
    /\ out' = Append(out, <<"content", result[1].content[idx]>>)
    /\ idx' = idx + 1
    /\ UNCHANGED <<tokenEnv, pc, waiting, connOpen, sessOpen, resp, tools,
                   result, calls, log, exc>>

LoopEnd ==
    /\ pc = "print"
    /\ LoopDone(idx, result[1].content)
    /\ pc' = NextStep("print")
    /\ UNCHANGED <<tokenEnv, waiting, connOpen, sessOpen, resp, tools,
                   result, idx, calls, out, log, exc>>

-----------------------------------------------------------------------------
(* Leaving the scopes, on return and on exception alike *)

ExitSession_Leak ==
    /\ pc = "exit_session"
    /\ pc' = "exit_sse"
    /\ UNCHANGED <<tokenEnv, waiting, connOpen, sessOpen, resp, tools,
                   result, idx, calls, out, log, exc>>

\* ClientSession.__aexit__
ExitSession ==
    /\ pc = "exit_session"
    /\ sessOpen' = FALSE
    /\ pc' = "exit_sse"
    /\ UNCHANGED <<tokenEnv, waiting, connOpen, resp, tools, result, idx,
                   calls, out, log, exc>>

\* sse_client's __aexit__
ExitSse ==
    /\ pc = "exit_sse"
    /\ connOpen' = FALSE
    /\ pc' = "done"
    /\ UNCHANGED <<tokenEnv, waiting, sessOpen, resp, tools, result, idx,
                   calls, out, log, exc>>

-----------------------------------------------------------------------------

Next ==
    \/ StartGet \/ GetRaises \/ GetReturns \/ ParseJson
    \/ StartSse \/ SseRaises \/ SseReturns
    \/ StartSession \/ SessionRaises \/ SessionReturns
    \/ StartInitialize \/ InitializeRaises \/ InitializeReturns
    \/ StartListTools \/ ListToolsRaises \/ ListToolsReturns \/ CheckTools
    \/ StartCallTool \/ CallToolRaises \/ CallToolReturns
    \/ PrintContent \/ LoopEnd
    \/ ExitSession \/ ExitSse

Spec == Init /\ [][Next]_vars

\* every external call eventually returns or raises, and the event loop
\* keeps running the coroutine
FairSpec == Spec /\ WF_vars(Next)

\* the steps run() takes by itself, without an answer of the remote side
LocalStep ==
    \/ StartGet \/ ParseJson \/ StartSse \/ StartSession \/ StartInitialize
    \/ StartListTools \/ CheckTools \/ StartCallTool \/ PrintContent
    \/ LoopEnd \/ ExitSession \/ ExitSse

\* only the coroutine's own steps are certain to happen: initialize,
\* list_tools and call_tool are awaited without any timeout
LocalFairSpec == Spec /\ WF_vars(LocalStep)

-----------------------------------------------------------------------------
(* Derived notions *)

Done == pc = "done"

\* how asyncio.run(run()) ends
Outcome ==
    IF ~Done THEN "running" ELSE IF exc = "none" THEN "returned" ELSE "raised"

Logged(op, ev) == \E i \in 1..Len(log) : log[i] = Event(op, ev)

Count(op, ev) == Cardinality({i \in 1..Len(log) : log[i] = Event(op, ev)})

Printed(tag) == \E i \in 1..Len(out) : out[i][1] = tag

NoticeLine == "No tools available!"

\* the payloads of the content lines printed so far, in printing order
PrintedContent ==
    LET lines == SelectSeq(out, LAMBDA e : e[1] = "content")
    IN  [i \in 1..Len(lines) |-> lines[i][2]]

\* the run has left the body of the inner `async with`
LeftBody == pc \in {"exit_session", "exit_sse", "done"}

EmptyTools == tools # <<>> /\ tools[1].has /\ tools[1].tools = <<>>

NonEmptyTools == tools # <<>> /\ tools[1].has /\ tools[1].tools # <<>>

NoToolsAttribute == tools # <<>> /\ ~tools[1].has

\* the external calls of a run that goes all the way, in program order
Canon ==
    <<Event("get", "start"), Event("get", "return"),
      Event("sse", "start"), Event("sse", "return"),
      Event("session", "start"), Event("session", "return"),
      Event("init", "start"), Event("init", "return"),
      Event("list", "start"), Event("list", "return"),
      Event("call", "start"), Event("call", "return")>>

-----------------------------------------------------------------------------
(* The claims *)

\* C1: when the run has ended, on whatever path (normal end, early return,
\* or an exception of any step), neither the SSE connection nor the
\* ClientSession is still open; and the session is never open without the
\* connection under it.
C1_ReleasedAtEnd ==
    /\ Done => ~connOpen /\ ~sessOpen
    /\ sessOpen => connOpen

\* a run that opened connection and session, then ended by list_tools raising
C1_Witness ==
    Done /\ exc = "list" /\ Logged("session", "return") /\ ~connOpen

\* C2: when list_tools answered with an empty tools collection, call_tool is
\* never invoked, and once the body is left the notice has been printed and
\* no exception is propagating: the run ends by a normal return.
C2_EmptyListSoftExit ==
    EmptyTools =>
        /\ calls = <<>>
        /\ ~Logged("call", "start")
        /\ pc # "call"
        /\ LeftBody => Printed(NoticeLine) /\ exc = "none"
        /\ Done => Outcome = "returned"

C2_Witness == Done /\ EmptyTools /\ Printed(NoticeLine)

\* C3 (as claimed): when the preflight GET failed by a network error, by a
\* body that is not JSON or by a non-success status, the streaming session
\* is never opened.
C3_PreflightFailureAborts ==
    (\/ Logged("get", "raise")
     \/ (resp # <<>> /\ (~resp[1].json \/ resp[1].status \notin 200..299)))
        => ~Logged("sse", "start")

\* C4 (as claimed): with the token unset or invalid, the run does not print
\* a preflight response and go on to open the streaming session.
C4_BadTokenStopsAtPreflight ==
    tokenEnv # "good" =>
        ~(Printed("MCP Server Response:") /\ Logged("sse", "start"))

\* C5: the external calls happen in program order, one at a time: what has
\* been started and completed so far is always a prefix of get, sse,
\* session, init, list, call, each started once and only after the previous
\* one returned; only the last call logged may have raised instead; and a
\* call is in flight exactly when the last event is its start.
C5_StrictSequence ==
    /\ Len(log) <= Len(Canon)
    /\ \A i \in 1..Len(log) :
          /\ log[i].op = Canon[i].op
          /\ \/ log[i].ev = Canon[i].ev
             \/ i = Len(log) /\ log[i].ev = "raise" /\ Canon[i].ev = "return"
    /\ waiting <=> (log # <<>> /\ log[Len(log)] = Event(pc, "start"))

C5_Witness == Logged("call", "return") /\ Done

\* C6: an exception of any external call is the last thing the run does
\* with the remote side: nothing is started after it, the call is not
\* retried, control is on its way out of the scopes, and the run ends
\* raising, never returning normally.
C6_RaiseAborts ==
    \A i \in 1..Len(log) :
        log[i].ev = "raise" =>
            /\ i = Len(log)
            /\ exc = log[i].op
            /\ ~waiting
            /\ LeftBody
            /\ Done => Outcome = "raised"

C6_Witness == Done /\ Logged("init", "raise") /\ Outcome = "raised"

\* C7: when list_tools answered with a non-empty collection and the body
\* has been left, call_tool was invoked exactly once, with the name
\* "apify/rag-web-browser" and {query: "example.com", maxResults: 3}; and
\* if it returned, every item of result.content was printed exactly once,
\* in order, and the run returns normally.
C7_OneCallAllPrinted ==
    (NonEmptyTools /\ LeftBody) =>
        /\ calls = <<[name |-> "apify/rag-web-browser",
                      arguments |-> [query |-> "example.com",
                                     maxResults |-> 3]]>>
        /\ Count("call", "start") = 1
        /\ result # <<>> =>
              /\ PrintedContent = result[1].content
              /\ exc = "none"

C7_Witness ==
    /\ Done
    /\ NonEmptyTools
    /\ result # <<>>
    /\ result[1].content = <<"item_a", "item_b", "item_a">>
    /\ PrintedContent = <<"item_a", "item_b", "item_a">>

C9_EarlyReturnNeedsAttribute ==
    /\ Printed(NoticeLine) => EmptyTools
    /\ (NoToolsAttribute /\ pc # "check") =>
          /\ ~Printed(NoticeLine)
          /\ pc = "call" \/ Logged("call", "start")

C9_Witness == Done /\ NoToolsAttribute /\ Logged("call", "return")

\* C10: provided every external call eventually returns or raises, every
\* run eventually ends, with the session and the connection released.
C10_Terminates == <>(Done /\ ~connOpen /\ ~sessOpen)

\* a run that opened both scopes, had call_tool raise, and ended released
C10_Witness ==
    /\ Done
    /\ exc = "call"
    /\ Logged("session", "return")
    /\ ~connOpen
    /\ ~sessOpen

====
